---------------------------- MODULE Spec2Model ----------------------------
(***************************************************************************)
(* The damped Newton minimiser of homework/HW5/HW5-2.py,                   *)
(* newton_method_with_line_search: Newton direction with steepest-descent  *)
(* fallback, Armijo backtracking line search, gradient-norm stopping test. *)
(***************************************************************************)
EXTENDS Integers, Sequences, FiniteSets, TLC

(***************************************************************************)
(* Floating-point numbers.  The source computes in IEEE-754 binary         *)
(* floating point (numpy float64): every operation rounds to nearest, ties *)
(* to even, overflows to an infinity, underflows gradually through the     *)
(* subnormals to zero, and yields NaN for inf-inf and 0*inf; a comparison  *)
(* with a NaN operand is false.  The model keeps all of that and shortens  *)
(* the format to a 24-bit significand and a 6-bit exponent: a finite       *)
(* number is m * 2^e with |m| < 2^Precision and EMin <= e <= EMax, in      *)
(* canonical form (|m| >= 2^(Precision-1) unless e = EMin).  The sign of   *)
(* zero is not kept.                                                       *)
(***************************************************************************)
Precision == 24

EMin == -53

EMax == 8

HalfP == Precision \div 2

Guard == 3

Pow2(i) == 2^i

Abs(n) == IF n < 0 THEN -n ELSE n

Sgn(n) == IF n < 0 THEN -1 ELSE 1

Max(a, b) == IF a >= b THEN a ELSE b

Min(a, b) == IF a <= b THEN a ELSE b

RECURSIVE Bits(_)
Bits(n) == IF n = 0 THEN 0 ELSE 1 + Bits(n \div 2)

NaN == [k |-> "nan", m |-> 0, e |-> 0]

Inf(sg) == [k |-> "inf", m |-> sg, e |-> 0]

Zero == [k |-> "fin", m |-> 0, e |-> EMin]

IsNaN(u) == u.k = "nan"

IsInf(u) == u.k = "inf"

IsFin(u) == u.k = "fin"

\* The finite number sg * a * 2^e, a already rounded; past EMax it is an infinity.
MkFin(sg, a, e) ==
    IF a = 0 THEN Zero
    ELSE IF e > EMax THEN Inf(sg)
    ELSE [k |-> "fin", m |-> sg * a, e |-> e]

\* Round sg * (a + d) * 2^e to the format, where 0 <= a < 2^30 and d = 0 when
\* st = 0, 0 < d < 1 when st = 1 (st = 1 only with a of more than Precision bits).
Round(sg, a, e, st) ==
    LET n  == Bits(a)
        sh == Max(n - Precision, EMin - e)
    IN  IF a = 0 /\ st = 0 THEN Zero
        ELSE IF sh <= 0 THEN
            LET lsh == Min(Precision - n, e - EMin)
            IN  MkFin(sg, a * Pow2(lsh), e - lsh)
        ELSE IF sh >= 31 THEN Zero
        ELSE
            LET q    == a \div Pow2(sh)
                r    == a % Pow2(sh)
                half == Pow2(sh - 1)
                up   == r > half \/ (r = half /\ (st = 1 \/ q % 2 = 1))
                q1   == IF up THEN q + 1 ELSE q
            IN  IF q1 = Pow2(Precision)
                THEN MkFin(sg, Pow2(Precision - 1), e + sh + 1)
                ELSE MkFin(sg, q1, e + sh)

\* The float of a small integer literal of the source.
Flt(n) == Round(Sgn(n), Abs(n), 0, 0)

FNeg(u) == IF IsNaN(u) THEN NaN ELSE [u EXCEPT !.m = -u.m]

FSign(u) == IF u.m = 0 THEN 0 ELSE Sgn(u.m)

\* u * v: the 2*Precision-bit product of the significands from half-width limbs,
\* cut to Precision + Guard bits and a sticky bit, then rounded once.
FMul(u, v) ==
    IF IsNaN(u) \/ IsNaN(v) THEN NaN
    ELSE IF IsInf(u) \/ IsInf(v) THEN
        IF FSign(u) * FSign(v) = 0 THEN NaN ELSE Inf(FSign(u) * FSign(v))
    ELSE
        LET B   == Pow2(HalfP)
            a1  == Abs(u.m) \div B
            a0  == Abs(u.m) % B
            b1  == Abs(v.m) \div B
            b0  == Abs(v.m) % B
            mid == a1 * b0 + a0 * b1
            los == (mid % B) * B + a0 * b0
            lo  == los % Pow2(Precision)
            hi  == a1 * b1 + (mid \div B) + (los \div Pow2(Precision))
            kk  == Min(Precision, Precision + Guard - Bits(hi))
            cut == Pow2(Precision - kk)
        IN  IF hi = 0 THEN Round(Sgn(u.m) * Sgn(v.m), lo, u.e + v.e, 0)
            ELSE Round(Sgn(u.m) * Sgn(v.m), hi * Pow2(kk) + (lo \div cut),
                       u.e + v.e + (Precision - kk),
                       IF lo % cut = 0 THEN 0 ELSE 1)

\* u + v for finite nonzero u, v with u.e >= v.e: v is shifted right behind Guard guard
\* bits, what falls off is the sticky bit.
AddAligned(u, v) ==
    LET dd  == u.e - v.e
        A   == Abs(u.m) * Pow2(Guard)
        Bf  == Abs(v.m) * Pow2(Guard)
        Bq  == Bf \div Pow2(dd)
        st  == IF Bf % Pow2(dd) = 0 THEN 0 ELSE 1
        T   == Sgn(u.m) * A + Sgn(v.m) * Bq
        mag == IF st = 1 /\ Sgn(u.m) # Sgn(v.m) THEN Abs(T) - 1 ELSE Abs(T)
    IN  IF dd >= Precision + Guard THEN u
        ELSE Round(Sgn(T), mag, u.e - Guard, st)

FAdd(u, v) ==
    IF IsNaN(u) \/ IsNaN(v) THEN NaN
    ELSE IF IsInf(u) THEN (IF IsInf(v) /\ v.m # u.m THEN NaN ELSE u)
    ELSE IF IsInf(v) THEN v
    ELSE IF u.m = 0 THEN v
    ELSE IF v.m = 0 THEN u
    ELSE IF u.e >= v.e THEN AddAligned(u, v) ELSE AddAligned(v, u)

FSub(u, v) == FAdd(u, FNeg(v))

\* Long division of r * 2^n by dv in chunks of Guard + 3 bits: <<quotient, remainder>>.
RECURSIVE LongDiv(_, _, _, _)
LongDiv(q, r, dv, n) ==
    IF n = 0 THEN <<q, r>>
    ELSE LET w == Min(n, Guard + 3)
         IN  LongDiv(q * Pow2(w) + ((r * Pow2(w)) \div dv), (r * Pow2(w)) % dv, dv, n - w)

\* u / v: both significands normalised, Precision + Guard - 1 quotient bits and a
\* sticky bit, rounded once.
FDiv(u, v) ==
    IF IsNaN(u) \/ IsNaN(v) THEN NaN
    ELSE IF IsInf(u) THEN (IF IsInf(v) THEN NaN ELSE Inf(u.m * Sgn(v.m)))
    ELSE IF IsInf(v) THEN Zero
    ELSE IF v.m = 0 THEN (IF u.m = 0 THEN NaN ELSE Inf(Sgn(u.m)))
    ELSE IF u.m = 0 THEN Zero
    ELSE
        LET kx == Precision - Bits(Abs(u.m))
            ky == Precision - Bits(Abs(v.m))
            nx == Abs(u.m) * Pow2(kx)
            ny == Abs(v.m) * Pow2(ky)
            nb == Precision + Guard - 1
            qr == LongDiv(nx \div ny, nx % ny, ny, nb)
        IN  Round(Sgn(u.m) * Sgn(v.m), qr[1], (u.e - kx) - (v.e - ky) - nb,
                  IF qr[2] = 0 THEN 0 ELSE 1)

\* Digit-by-digit square root: j counts the bit pairs of n still to bring down,
\* z the pairs of zeros after them: <<root, remainder>>.
RECURSIVE SqrtDigits(_, _, _, _, _)
SqrtDigits(n, j, z, root, rem) ==
    IF j = 0 /\ z = 0 THEN <<root, rem>>
    ELSE LET pair == IF j > 0 THEN (n \div Pow2(2 * (j - 1))) % 4 ELSE 0
             r4   == rem * 4 + pair
             t    == 4 * root + 1
         IN  IF r4 >= t
             THEN SqrtDigits(n, IF j > 0 THEN j - 1 ELSE 0, IF j > 0 THEN z ELSE z - 1,
                             2 * root + 1, r4 - t)
             ELSE SqrtDigits(n, IF j > 0 THEN j - 1 ELSE 0, IF j > 0 THEN z ELSE z - 1,
                             2 * root, r4)

FSqrt(u) ==
    IF IsNaN(u) THEN NaN
    ELSE IF IsInf(u) THEN (IF u.m > 0 THEN u ELSE NaN)
    ELSE IF u.m < 0 THEN NaN
    ELSE IF u.m = 0 THEN Zero
    ELSE
        LET kx == Precision - Bits(u.m)
            ex == u.e - kx
            n  == IF ex % 2 = 0 THEN u.m * Pow2(kx) ELSE u.m * Pow2(kx) * 2
            ee == IF ex % 2 = 0 THEN ex ELSE ex - 1
            z  == HalfP + Guard - 1
            rr == SqrtDigits(n, HalfP + 1, z, 0, 0)
        IN  Round(1, rr[1], (ee \div 2) - z, IF rr[2] = 0 THEN 0 ELSE 1)

\* u > v as the source's > decides it: false when either side is a NaN.
FGt(u, v) ==
    IF IsNaN(u) \/ IsNaN(v) THEN FALSE
    ELSE IF IsInf(u) THEN u.m > 0 /\ u # v
    ELSE IF IsInf(v) THEN v.m < 0
    ELSE IF FSign(u) # FSign(v) THEN FSign(u) > FSign(v)
    ELSE IF FSign(u) = 0 THEN FALSE
    ELSE IF FSign(u) > 0 THEN u.e > v.e \/ (u.e = v.e /\ u.m > v.m)
    ELSE u.e < v.e \/ (u.e = v.e /\ u.m > v.m)

\* u <= v: false when either side is a NaN.
FLe(u, v) == ~IsNaN(u) /\ ~IsNaN(v) /\ ~FGt(u, v)

FAbs(u) == IF IsFin(u) \/ IsInf(u) THEN [u EXCEPT !.m = Abs(u.m)] ELSE u

\* n / 2^i, exactly: the dyadic literals of the inputs.
Dyadic(n, i) == Round(Sgn(n), Abs(n), -i, 0)

One == Flt(1)

Half == FDiv(Flt(1), Flt(2))

Tenth == FDiv(Flt(1), Flt(10))

ThreeQuarters == FDiv(Flt(3), Flt(4))

TenThousandth == FDiv(Flt(1), Flt(10000))

(***************************************************************************)
(* Vectors are pairs, matrices pairs of rows.                              *)
(***************************************************************************)
Sq(u) == FMul(u, u)

\* x**3, computed as two rounded products.
Cube(u) == FMul(FMul(u, u), u)

\* np.dot(grad, d)
Dot(u, v) == FAdd(FMul(u[1], v[1]), FMul(u[2], v[2]))

\* np.linalg.norm(grad): sqrt(grad . grad)
Norm(u) == FSqrt(Dot(u, u))

VNeg(u) == <<FNeg(u[1]), FNeg(u[2])>>

\* x + alpha * d
StepTo(xv, a, dv) == <<FAdd(xv[1], FMul(a, dv[1])), FAdd(xv[2], FMul(a, dv[2]))>>

(***************************************************************************)
(* The objective of the source and its derivatives, in the source's order  *)
(* of evaluation.                                                          *)
(***************************************************************************)
f(xv) ==
    FAdd(Sq(FSub(FAdd(FMul(Flt(2), xv[1]), Sq(xv[2])), Flt(4))),
         Sq(FSub(FAdd(Sq(xv[1]), xv[2]), Flt(8))))

gradient_f(xv) ==
    << FSub(FAdd(FSub(FAdd(FMul(Flt(4), Cube(xv[1])), FMul(FMul(Flt(4), xv[1]), xv[2])),
                      FMul(Flt(24), xv[1])),
                 FMul(Flt(4), Sq(xv[2]))),
            Flt(16)),
       FSub(FAdd(FSub(FAdd(FMul(Flt(4), Cube(xv[2])), FMul(FMul(Flt(8), xv[1]), xv[2])),
                      FMul(Flt(14), xv[2])),
                 FMul(Flt(2), Sq(xv[1]))),
            Flt(16)) >>

hessian_f(xv) ==
    LET h11 == FSub(FAdd(FMul(Flt(12), Sq(xv[1])), FMul(Flt(4), xv[2])), Flt(24))
        h12 == FAdd(FMul(Flt(4), xv[1]), FMul(Flt(8), xv[2]))
        h21 == FAdd(FMul(Flt(4), xv[1]), FMul(Flt(8), xv[2]))
        h22 == FSub(FAdd(FMul(Flt(12), Sq(xv[2])), FMul(Flt(8), xv[1])), Flt(14))
    IN  << <<h11, h12>>, <<h21, h22>> >>

(***************************************************************************)
(* The quadratic test objective x^T A x of the specification, A symmetric  *)
(* positive-definite with integer entries, its gradient 2 A x and its      *)
(* Hessian 2 A.                                                            *)
(***************************************************************************)
QuadMatrices == { << <<1, 0>>, <<0, 1>> >>, << <<2, 1>>, <<1, 3>> >> }

QuadF(A, xv) ==
    FAdd(FMul(xv[1], FAdd(FMul(Flt(A[1][1]), xv[1]), FMul(Flt(A[1][2]), xv[2]))),
         FMul(xv[2], FAdd(FMul(Flt(A[2][1]), xv[1]), FMul(Flt(A[2][2]), xv[2]))))

QuadGradient(A, xv) ==
    << FMul(Flt(2), FAdd(FMul(Flt(A[1][1]), xv[1]), FMul(Flt(A[1][2]), xv[2]))),
       FMul(Flt(2), FAdd(FMul(Flt(A[2][1]), xv[1]), FMul(Flt(A[2][2]), xv[2]))) >>

QuadHessian(A, xv) ==
    << <<Flt(2 * A[1][1]), Flt(2 * A[1][2])>>, <<Flt(2 * A[2][1]), Flt(2 * A[2][2])>> >>

(***************************************************************************)
(* np.linalg.solve(hess, grad) for a 2 x 2 system: LU factorisation with   *)
(* partial pivoting and two triangular solves, every operation rounded.    *)
(* An exactly zero pivot is the one case reported as LinAlgError; ok is     *)
(* FALSE then.  p22 and u22 are the last diagonal entry before and after   *)
(* the elimination.                                                        *)
(***************************************************************************)
Solve(H, b) ==
    LET swap == FGt(FAbs(H[2][1]), FAbs(H[1][1]))
        p11  == IF swap THEN H[2][1] ELSE H[1][1]
        p12  == IF swap THEN H[2][2] ELSE H[1][2]
        p21  == IF swap THEN H[1][1] ELSE H[2][1]
        p22  == IF swap THEN H[1][2] ELSE H[2][2]
        b1   == IF swap THEN b[2] ELSE b[1]
        b2   == IF swap THEN b[1] ELSE b[2]
        l21  == FDiv(p21, p11)
        u22  == FSub(p22, FMul(l21, p12))
        y2   == FSub(b2, FMul(l21, b1))
        s2   == FDiv(y2, u22)
        s1   == FDiv(FSub(b1, FMul(p12, s2)), p11)
    IN  IF p11 = Zero THEN [ok |-> FALSE, s |-> <<Zero, Zero>>, p22 |-> p22, u22 |-> Zero]
        ELSE IF u22 = Zero THEN [ok |-> FALSE, s |-> <<Zero, Zero>>, p22 |-> p22, u22 |-> u22]
        ELSE [ok |-> TRUE, s |-> <<s1, s2>>, p22 |-> p22, u22 |-> u22]

\* A variant that never solves: steepest descent at every iteration.
SteepestDescent(H, g) == [d |-> VNeg(g), fallback |-> TRUE]

\* Lines 67-71: the Newton direction, or the negative gradient when the solve
\* raises LinAlgError.
NewtonDirection(H, g) ==
    LET r == Solve(H, g)
    IN  IF r.ok THEN [d |-> VNeg(r.s), fallback |-> FALSE]
        ELSE [d |-> VNeg(g), fallback |-> TRUE]

(***************************************************************************)
(* homework/HW4/HW4.py: f(x) = -x + 2^x and its derivatives.  2**x is      *)
(* computed as 2^n * e^(r ln 2) with n the integer nearest to x, r = x - n *)
(* (exact) and the exponential summed from its series in rounded           *)
(* arithmetic: within a few units in the last place of the library's       *)
(* result.  An argument of magnitude 64 or more overflows or underflows.   *)
(***************************************************************************)
\* np.log(2), rounded to the format.
Ln2 == Dyadic(11629080, 24)

ExpTerms == 8

\* 1 + y/i * (1 + y/(i+1) * ( ... )), the tail of the series of e^y from term i.
RECURSIVE ExpSeries(_, _)
ExpSeries(y, i) ==
    IF i > ExpTerms THEN One
    ELSE FAdd(One, FMul(FDiv(y, Flt(i)), ExpSeries(y, i + 1)))

\* The integer nearest to a finite u of magnitude below 64.
Nearest(u) ==
    IF u.e >= 0 THEN u.m * Pow2(u.e)
    ELSE IF -u.e > Precision THEN 0
    ELSE (u.m + Pow2(-u.e - 1)) \div Pow2(-u.e)

\* 2**x
Exp2(u) ==
    IF IsNaN(u) THEN NaN
    ELSE IF IsInf(u) THEN (IF u.m > 0 THEN Inf(1) ELSE Zero)
    ELSE IF FLe(Flt(64), u) THEN Inf(1)
    ELSE IF FLe(u, Flt(-64)) THEN Zero
    ELSE
        LET n == Nearest(u)
            p == ExpSeries(FMul(FSub(u, Flt(n)), Ln2), 1)
        IN  Round(1, p.m, p.e + n, 0)

\* HW4.py lines 6-8 (the source's name is f).
hw4_f(u) == FAdd(FNeg(u), Exp2(u))

\* HW4.py lines 11-13.
f_prime(u) == FAdd(Flt(-1), FMul(Exp2(u), Ln2))

\* HW4.py lines 16-18.
f_double_prime(u) == FMul(Exp2(u), Sq(Ln2))

(***************************************************************************)
(* Inputs.  Start points: the two of main(), the point (1.5, -0.75) where  *)
(* the Hessian is exactly singular, (-3.25, -1.5) and (0, 0) where it is   *)
(* not positive-definite, a point next to the curve det H = 0 where the    *)
(* elimination cancels every significant bit of the last pivot without     *)
(* making it zero, and (208, 208), so large that the slope gradient . d    *)
(* overflows.                                                              *)
(***************************************************************************)
MaxIter == 3

DefaultMaxIter == 100

MainStarts == { <<Flt(-3), Flt(-3)>>, <<Flt(-2), Flt(-2)>> }

Singular == <<Dyadic(3, 1), Dyadic(-3, 2)>>

NearSingular == <<Dyadic(5, 2), Dyadic(13698653, 22)>>

Huge == <<Flt(208), Flt(208)>>

PlainStarts == MainStarts \cup {Singular}

HardStarts == { <<Dyadic(-13, 2), Dyadic(-3, 1)>>, <<Flt(0), Flt(0)>>, NearSingular, Huge }

QuadStarts == { <<Flt(1), Flt(2)>>, <<Flt(-3), Flt(-3)>>, <<Flt(0), Flt(0)>> }

NoMatrix == << <<0, 0>>, <<0, 0>> >>

Hw5(S) == { [objective |-> "hw5", A |-> NoMatrix, x0 |-> s] : s \in S }

Quadratics ==
    { [objective |-> "quadratic", A |-> M, x0 |-> s] : M \in QuadMatrices, s \in QuadStarts }

\* The defaults of lines 33-36.
DefaultConfig == [alpha_bar |-> One, rho |-> Half, c |-> Tenth, epsilon |-> TenThousandth]

CoreConfigs ==
    { DefaultConfig,
      [DefaultConfig EXCEPT !.rho = ThreeQuarters, !.c = Half],
      [DefaultConfig EXCEPT !.c = ThreeQuarters] }

\* A looser tolerance, and invalid configurations: rho = 1, alpha_bar = 0, epsilon = 0.
MoreConfigs ==
    { [DefaultConfig EXCEPT !.epsilon = One],
      [DefaultConfig EXCEPT !.rho = One],
      [DefaultConfig EXCEPT !.alpha_bar = Zero],
      [DefaultConfig EXCEPT !.epsilon = Zero] }

Calls ==
    { <<p, cf, n>> : p \in Hw5(PlainStarts \cup HardStarts) \cup Quadratics,
                     cf \in CoreConfigs, n \in 0..MaxIter }
    \cup { <<p, cf, n>> : p \in Hw5(PlainStarts) \cup Quadratics,
                          cf \in MoreConfigs, n \in 0..MaxIter }
    \cup { <<p, DefaultConfig, DefaultMaxIter>> : p \in Hw5(MainStarts) }

\* The calls a caller repeats.
RepeatedCalls ==
    { <<p, cf, n>> : p \in Hw5(PlainStarts) \cup Quadratics,
                     cf \in {DefaultConfig, [DefaultConfig EXCEPT !.epsilon = One]},
                     n \in 0..MaxIter }

VARIABLES
    objective,   \* which f, gradient_f, hessian_f the module binds
    A,           \* the matrix of the quadratic objective
    x0,          \* the caller's start array
    alpha_bar, rho, c, epsilon, max_iter,   \* the arguments of the call
    pc,          \* "call", "loop" (line 57), "search" (line 75), "done" (returned)
    x, points, step_sizes, k, grad, d, alpha,   \* the locals of the function
    ret,         \* the returned tuple
    steps,       \* history: gradient, direction and branch of every accepted step
    exit,        \* history: how the loop was left
    run,         \* number of the current call
    prev,        \* history: budget and result of the call before
    hw4          \* HW4.py: the arguments, locals and result of newton_method

vars == <<objective, A, x0, alpha_bar, rho, c, epsilon, max_iter, pc, x, points,
          step_sizes, k, grad, d, alpha, ret, steps, exit, run, prev, hw4>>

inputs == <<objective, A, x0, alpha_bar, rho, c, epsilon>>

ZeroVec == <<Zero, Zero>>

NoPrev == [max_iter |-> -1, ret |-> <<>>, exit |-> "none"]

\* The callables bound to the names f, gradient_f and hessian_f.
Objective(xv) == IF objective = "hw5" THEN f(xv) ELSE QuadF(A, xv)

Gradient(xv) == IF objective = "hw5" THEN gradient_f(xv) ELSE QuadGradient(A, xv)

Hessian(xv) == IF objective = "hw5" THEN hessian_f(xv) ELSE QuadHessian(A, xv)

Start(S) ==
    /\ \E cl \in S :
          /\ objective = cl[1].objective /\ A = cl[1].A /\ x0 = cl[1].x0
          /\ alpha_bar = cl[2].alpha_bar /\ rho = cl[2].rho
          /\ c = cl[2].c /\ epsilon = cl[2].epsilon
          /\ max_iter = cl[3]
    /\ pc = "call"
    /\ x = ZeroVec /\ points = <<>> /\ step_sizes = <<>> /\ k = 0
    /\ grad = ZeroVec /\ d = ZeroVec /\ alpha = Zero
    /\ ret = <<>> /\ steps = <<>> /\ exit = "none"
    /\ run = 1 /\ prev = NoPrev

\* newton_method of HW4.py, not called.
NotCalled ==
    [x0 |-> Zero, tol |-> Zero, max_iter |-> 0, pc |-> "idle", x |-> Zero, k |-> 0,
     fpx |-> Zero, fppx |-> Zero, iterations |-> <<>>, ret |-> <<>>, exit |-> "none",
     updates |-> 0, tested |-> {}]

Init == Start(Calls) /\ hw4 = NotCalled

\* A variant whose traces outlive the call, as lists shared between calls would.
EnterKeepingTrace ==
    /\ pc = "call"
    /\ x' = x0
    /\ points' = Append(points, x0)
    /\ step_sizes' = step_sizes
    /\ k' = 0
    /\ steps' = steps
    /\ exit' = "none"
    /\ pc' = "loop"
    /\ UNCHANGED <<inputs, max_iter, grad, d, alpha, ret, run, prev, hw4>>

\* Lines 53-55: x = x0.copy(); points = [x.copy()]; step_sizes = [].
Enter ==
    /\ pc = "call"
    /\ x' = x0
    /\ points' = <<x0>>
    /\ step_sizes' = <<>>
    /\ k' = 0
    /\ steps' = <<>>
    /\ exit' = "none"
    /\ pc' = "loop"
    /\ UNCHANGED <<inputs, max_iter, grad, d, alpha, ret, run, prev, hw4>>

\* A variant that stops one iteration early, as range(max_iter - 1) would.
ExhaustedEarly ==
    /\ pc = "loop"
    /\ k >= max_iter - 1
    /\ ret' = <<x, points, step_sizes>>
    /\ exit' = "exhausted"
    /\ pc' = "done"
    /\ UNCHANGED <<inputs, max_iter, x, points, step_sizes, k, grad, d, alpha, steps, run, prev, hw4>>

\* Lines 57, 85: range(max_iter) is used up; return x, points, step_sizes.
Exhausted ==
    /\ pc = "loop"
    /\ k >= max_iter
    /\ ret' = <<x, points, step_sizes>>
    /\ exit' = "exhausted"
    /\ pc' = "done"
    /\ UNCHANGED <<inputs, max_iter, x, points, step_sizes, k, grad, d, alpha, steps, run, prev, hw4>>

\* A variant that records a step of size alpha_bar for the iterate it stops at.
ConvergedCounted(g) ==
    /\ grad' = g
    /\ points' = Append(points, x)
    /\ step_sizes' = Append(step_sizes, alpha_bar)
    /\ steps' = Append(steps, [grad |-> g, d |-> ZeroVec])
    /\ ret' = <<x, points', step_sizes'>>
    /\ exit' = "converged"
    /\ pc' = "done"
    /\ UNCHANGED <<inputs, max_iter, x, k, d, alpha, run, prev, hw4>>

\* Lines 62-63, 85: break, then return x, points, step_sizes.
Converged(g) ==
    /\ grad' = g
    /\ ret' = <<x, points, step_sizes>>
    /\ exit' = "converged"
    /\ pc' = "done"
    /\ UNCHANGED <<inputs, max_iter, x, points, step_sizes, k, d, alpha, steps, run, prev, hw4>>

\* Lines 66-74: the direction is chosen and the line search starts at alpha_bar.
Direction(g) ==
    /\ grad' = g
    /\ d' = NewtonDirection(Hessian(x), g).d
    /\ alpha' = alpha_bar
    /\ pc' = "search"
    /\ UNCHANGED <<inputs, max_iter, x, points, step_sizes, k, ret, steps, exit, run, prev, hw4>>

\* Lines 57-74: one pass from the head of the for loop to the head of the while loop.
Iterate ==
    /\ pc = "loop"
    /\ k < max_iter
    /\ LET g == Gradient(x)
       IN  IF FLe(Norm(g), epsilon) THEN Converged(g) ELSE Direction(g)

\* Line 75: f(x + alpha * d) > f(x) + c * alpha * np.dot(grad, d)
ArmijoFails(xv, a, dv, g) ==
    FGt(Objective(StepTo(xv, a, dv)),
        FAdd(Objective(xv), FMul(FMul(c, a), Dot(g, dv))))

\* Line 76: alpha = rho * alpha.
Backtrack ==
    /\ alpha' = FMul(rho, alpha)
    /\ UNCHANGED <<inputs, max_iter, pc, x, points, step_sizes, k, grad, d, ret, steps, exit,
                   run, prev, hw4>>

\* A variant that moves against the direction the line search tried.
AcceptBackwards ==
    /\ x' = StepTo(x, FNeg(alpha), d)
    /\ points' = Append(points, x')
    /\ step_sizes' = Append(step_sizes, alpha)
    /\ steps' = Append(steps, [grad |-> grad, d |-> d])
    /\ k' = k + 1
    /\ pc' = "loop"
    /\ UNCHANGED <<inputs, max_iter, grad, d, alpha, ret, exit, run, prev, hw4>>

\* A variant without the copies: x0, x and every entry of points are one array,
\* updated in place.
AcceptInPlace ==
    /\ x' = StepTo(x, alpha, d)
    /\ x0' = x'
    /\ points' = [i \in 1..(Len(points) + 1) |-> x']
    /\ step_sizes' = Append(step_sizes, alpha)
    /\ steps' = Append(steps, [grad |-> grad, d |-> d])
    /\ k' = k + 1
    /\ pc' = "loop"
    /\ UNCHANGED <<objective, A, alpha_bar, rho, c, epsilon, max_iter, grad, d, alpha, ret,
                   exit, run, prev, hw4>>

\* Lines 79-83: the step is taken, recorded and printed.
Accept ==
    /\ x' = StepTo(x, alpha, d)
    /\ points' = Append(points, x')
    /\ step_sizes' = Append(step_sizes, alpha)
    /\ steps' = Append(steps, [grad |-> grad, d |-> d])
    /\ k' = k + 1
    /\ pc' = "loop"
    /\ UNCHANGED <<inputs, max_iter, grad, d, alpha, ret, exit, run, prev, hw4>>

\* Lines 75-81: one test of the while condition and what follows it.
LineSearch ==
    /\ pc = "search"
    /\ IF ArmijoFails(x, alpha, d, grad) THEN Backtrack ELSE Accept

\* The caller calls again, with the same arguments or with a budget one larger.
CallAgain ==
    /\ pc = "done"
    /\ run = 1
    /\ \E n \in {max_iter, max_iter + 1} : n <= MaxIter /\ max_iter' = n
    /\ prev' = [max_iter |-> max_iter, ret |-> ret, exit |-> exit]
    /\ run' = 2
    /\ pc' = "call"
    /\ UNCHANGED <<inputs, x, points, step_sizes, k, grad, d, alpha, ret, steps, exit, hw4>>

Next == Enter \/ Exhausted \/ Iterate \/ LineSearch

Spec == Init /\ [][Next]_vars

\* A caller that calls twice.
RepeatInit == Start(RepeatedCalls) /\ hw4 = NotCalled

RepeatNext == Next \/ CallAgain

RepeatSpec == RepeatInit /\ [][RepeatNext]_vars

(***************************************************************************)
(* newton_method of homework/HW4/HW4.py: Newton's method with the full     *)
(* step in one variable.  hw4 holds its arguments, its locals and its      *)
(* result; updates counts the Newton updates made so far (the generation   *)
(* of the current x) and tested is the set of generations the test of line *)
(* 49 was applied to.                                                      *)
(***************************************************************************)
HundredThousandth == FDiv(One, Flt(100000))

\* The default of line 21.
DefaultNewtonMaxIter == 10

\* x0 = 0 is the call of line 228; from -5 the first update overflows 2**x.
NewtonStarts == { Zero, One, Flt(3), Flt(10), Flt(-5), Half }

\* The tolerance of line 228, a loose one, and an invalid one.
NewtonTols == { HundredThousandth, One, Zero }

NewtonCalls ==
    { [NotCalled EXCEPT !.x0 = s, !.tol = tl, !.max_iter = n, !.pc = "call"] :
          s \in NewtonStarts, tl \in NewtonTols, n \in 0..MaxIter \cup {DefaultNewtonMaxIter} }

\* Lines 33-34: x = x0; iterations = [].
NewtonEnter ==
    /\ hw4.pc = "call"
    /\ hw4' = [hw4 EXCEPT !.x = hw4.x0, !.iterations = <<>>, !.k = 0, !.pc = "loop"]

\* Lines 36-46: the derivatives are evaluated at x and the entry is appended.
NewtonRecord ==
    /\ hw4.pc = "loop"
    /\ hw4.k < hw4.max_iter
    /\ LET fx == hw4_f(hw4.x)
           fpx == f_prime(hw4.x)
           fppx == f_double_prime(hw4.x)
       IN  hw4' = [hw4 EXCEPT
                      !.fpx = fpx, !.fppx = fppx,
                      !.iterations = Append(@, [k |-> hw4.k, x |-> hw4.x,
                                                fx |-> fx, fpx |-> fpx]),
                      !.pc = "test"]

\* A variant that makes the Newton update before the convergence test.
NewtonTestAfterUpdate ==
    /\ hw4.pc = "test"
    /\ LET xn == FSub(hw4.x, FDiv(hw4.fpx, hw4.fppx))
       IN  IF FGt(hw4.tol, FAbs(hw4.fpx))
           THEN hw4' = [hw4 EXCEPT !.x = xn, !.updates = @ + 1,
                                   !.tested = @ \cup {hw4.updates},
                                   !.ret = <<xn, hw4.iterations>>,
                                   !.exit = "converged", !.pc = "done"]
           ELSE hw4' = [hw4 EXCEPT !.x = xn, !.updates = @ + 1,
                                   !.tested = @ \cup {hw4.updates},
                                   !.k = @ + 1, !.pc = "loop"]

\* Lines 49-53, 55: if abs(fpx) < tol: break (and return); else x = x - fpx / fppx.
NewtonTest ==
    /\ hw4.pc = "test"
    /\ IF FGt(hw4.tol, FAbs(hw4.fpx))
       THEN hw4' = [hw4 EXCEPT !.tested = @ \cup {hw4.updates},
                               !.ret = <<hw4.x, hw4.iterations>>,
                               !.exit = "converged", !.pc = "done"]
       ELSE hw4' = [hw4 EXCEPT !.x = FSub(hw4.x, FDiv(hw4.fpx, hw4.fppx)),
                               !.updates = @ + 1,
                               !.tested = @ \cup {hw4.updates},
                               !.k = @ + 1, !.pc = "loop"]

\* Lines 36, 55: range(max_iter) is used up; return x, iterations.
NewtonExhausted ==
    /\ hw4.pc = "loop"
    /\ hw4.k >= hw4.max_iter
    /\ hw4' = [hw4 EXCEPT !.ret = <<hw4.x, hw4.iterations>>,
                          !.exit = "exhausted", !.pc = "done"]

hw5vars == <<objective, A, x0, alpha_bar, rho, c, epsilon, max_iter, pc, x, points,
             step_sizes, k, grad, d, alpha, ret, steps, exit, run, prev>>

\* newton_method_with_line_search is not running while newton_method is.
NewtonInit ==
    /\ Start({ <<[objective |-> "hw5", A |-> NoMatrix, x0 |-> ZeroVec], DefaultConfig, 0>> })
    /\ hw4 \in NewtonCalls

NewtonNext ==
    \/ NewtonEnter /\ UNCHANGED hw5vars
    \/ NewtonRecord /\ UNCHANGED hw5vars
    \/ NewtonTest /\ UNCHANGED hw5vars
    \/ NewtonExhausted /\ UNCHANGED hw5vars

NewtonSpec == NewtonInit /\ [][NewtonNext]_vars

(***************************************************************************)
(* Properties.                                                             *)
(***************************************************************************)
\* A valid configuration: alpha_bar > 0, rho and c in (0, 1), epsilon > 0, max_iter > 0.
ValidConfig ==
    /\ FGt(alpha_bar, Zero)
    /\ FGt(rho, Zero) /\ FGt(One, rho)
    /\ FGt(c, Zero) /\ FGt(One, c)
    /\ FGt(epsilon, Zero)
    /\ max_iter > 0

Returned == pc = "done"

\* The test of line 62 at the point xv.
SmallGradient(xv) == FLe(Norm(Gradient(xv)), epsilon)

\* The Armijo condition of the i-th accepted step, from the recorded values.
ArmijoHolds(i) ==
    FLe(Objective(points[i + 1]),
        FAdd(Objective(points[i]),
             FMul(FMul(c, step_sizes[i]), Dot(Gradient(points[i]), steps[i].d))))

\* The elimination cancelled more than half of the significand of the last pivot.
Unstable(H) ==
    LET r == Solve(H, ZeroVec)
    IN  r.ok /\ FLe(FMul(FAbs(r.u22), Flt(Pow2(HalfP))), FAbs(r.p22))

\* C1: when a run has returned, every accepted step from points[i] to
\* points[i+1] with recorded size step_sizes[i] and direction d_i satisfies
\* f(points[i+1]) <= f(points[i]) + c * step_sizes[i] * (gradient_f(points[i]) . d_i).
C1_ArmijoAtEveryStep ==
    Returned => \A i \in 1..Len(step_sizes) : ArmijoHolds(i)

C4_FallsBackWhenSingularOrUnstable ==
    (pc = "search" /\ (~Solve(Hessian(x), grad).ok \/ Unstable(Hessian(x))))
        => d = VNeg(grad)

\* C5: under a valid configuration the objective values along the recorded
\* iterates never increase: f(points[i+1]) <= f(points[i]) for every i.
C5_ObjectiveNonIncreasing ==
    ValidConfig =>
        \A i \in 1..(Len(points) - 1) : FLe(Objective(points[i + 1]), Objective(points[i]))

\* C6: the line search never loops indefinitely: under a valid configuration
\* a failed Armijo test is followed by a reduction that changes alpha.  (A
\* reduction that leaves alpha as it was repeats the same failed test for
\* ever, since nothing else changes, and the run never returns.)
C6_LineSearchProgresses ==
    (ValidConfig /\ pc = "search" /\ ArmijoFails(x, alpha, d, grad))
        => FMul(rho, alpha) # alpha

\* C7: a call with an invalid configuration is rejected before any iteration
\* is run: it evaluates no gradient, takes no step and returns no iterates.
C7_InvalidConfigRejected ==
    ~ValidConfig => (pc \in {"call", "loop"} /\ step_sizes = <<>>)

\* C8: the returned value alone tells a converged run from one that used up
\* its budget: two calls returning the same value left the loop the same way.
C8_StatusInReturnValue ==
    (Returned /\ run = 2 /\ ret = prev.ret) => exit = prev.exit

C10_Deterministic ==
    (Returned /\ run = 2 /\ max_iter = prev.max_iter) => ret = prev.ret

\* A second call with the same arguments that returned after two or more steps.
C10_Witness ==
    /\ Returned /\ run = 2 /\ max_iter = prev.max_iter
    /\ objective = "hw5" /\ Len(ret[3]) >= 2

\* C11: from x0 = (-3, -3) with alpha_bar = 1, rho = 0.5, c = 0.1, epsilon =
\* 1e-4 and max_iter = 100 the run returns a point with gradient norm <= 1e-4
\* after fewer than 100 accepted steps, and the objective values along the
\* recorded iterates are strictly decreasing.
C11_MainRunConverges ==
    (/\ Returned /\ objective = "hw5" /\ x0 = <<Flt(-3), Flt(-3)>>
     /\ alpha_bar = One /\ rho = Half /\ c = Tenth /\ epsilon = TenThousandth
     /\ max_iter = DefaultMaxIter)
        => /\ FLe(Norm(gradient_f(ret[1])), TenThousandth)
           /\ Len(ret[3]) < DefaultMaxIter
           /\ \A i \in 1..(Len(ret[2]) - 1) : FGt(f(ret[2][i]), f(ret[2][i + 1]))

\* main()'s first call has returned, after several accepted steps.
C11_Witness ==
    /\ Returned /\ objective = "hw5" /\ x0 = <<Flt(-3), Flt(-3)>>
    /\ alpha_bar = One /\ rho = Half /\ c = Tenth /\ epsilon = TenThousandth
    /\ max_iter = DefaultMaxIter
    /\ Len(ret[3]) >= 3

\* The entry recorded for the last iterate of newton_method.
LastEntry == hw4.iterations[Len(hw4.iterations)]

\* x - fpx / fppx of line 53, from a recorded entry.
NewtonUpdate(entry) == FSub(entry.x, FDiv(entry.fpx, f_double_prime(entry.x)))

MaxReductions == 64

\* alpha_bar * rho^j as line 76 computes it: j reductions of alpha_bar.
RECURSIVE Candidate(_)
Candidate(j) == IF j = 0 THEN alpha_bar ELSE FMul(rho, Candidate(j - 1))

\* The Armijo condition of the i-th line search for the step size a.
ArmijoHoldsWith(i, a) ==
    FLe(Objective(StepTo(points[i], a, steps[i].d)),
        FAdd(Objective(points[i]), FMul(FMul(c, a), Dot(steps[i].grad, steps[i].d))))

\* The least j from j0 on whose candidate a = alpha_bar * rho^j satisfies the
\* Armijo condition of the i-th line search; -1 if there is none up to MaxReductions.
RECURSIVE LeastExponent(_, _, _)
LeastExponent(i, a, j0) ==
    IF j0 > MaxReductions THEN -1
    ELSE IF ArmijoHoldsWith(i, a) THEN j0
    ELSE LeastExponent(i, FMul(rho, a), j0 + 1)

\* C13: under a valid configuration every recorded step size is alpha_bar
\* reduced j times by the factor rho, j being the least number of reductions
\* after which the Armijo condition holds at that iterate; a reduction inside
\* a line search makes alpha strictly smaller; and every recorded step size
\* satisfies 0 < alpha <= alpha_bar.
C13_LeastReduction ==
    ValidConfig =>
        /\ \A i \in 1..Len(step_sizes) :
              /\ LET j == LeastExponent(i, alpha_bar, 0)
                 IN  j >= 0 /\ step_sizes[i] = Candidate(j)
              /\ FGt(step_sizes[i], Zero)
              /\ FLe(step_sizes[i], alpha_bar)
        /\ (pc = "search" /\ ArmijoFails(x, alpha, d, grad)) => FGt(alpha, FMul(rho, alpha))

\* s extends r by at most one element and leaves the elements of r as they were.
Extends(s, r) ==
    /\ Len(s) \in {Len(r), Len(r) + 1}
    /\ SubSeq(s, 1, Len(r)) = r

\* C14: no step of newton_method_with_line_search changes the caller's x0;
\* once the call has started, a step leaves every entry of points and of
\* step_sizes as it was and appends at most one; the first entry of points is
\* x0, and the lists returned are the ones recorded, starting with x0.
C14_RecordedIsFrozen ==
    [][/\ x0' = x0
       /\ pc # "call" => Extends(points', points) /\ Extends(step_sizes', step_sizes)
       /\ pc' # "call" => points'[1] = x0
       /\ pc' = "done" => ret'[2] = points' /\ ret'[3] = step_sizes' /\ ret'[2][1] = x0]_vars

\* A run that appended several iterates, all different from its start.
C14_Witness ==
    /\ Returned /\ Len(points) = MaxIter + 1 /\ Len(step_sizes) = MaxIter
    /\ points[1] = x0
    /\ \A i \in 2..Len(points) : points[i] # x0 /\ points[i] # points[i - 1]
=============================================================================
